---- MODULE Spec2Model ----
(***************************************************************************)
(* The run lifecycle of the mock data-source simulators.                   *)
(*                                                                         *)
(* Every simulator is one Node.js process with an in-memory run store and  *)
(* a handful of timers.  One behaviour of this module follows one such     *)
(* process: `sim` names the simulator and never changes.                   *)
(*                                                                         *)
(* Time is kept per timer as the milliseconds that remain until it fires.  *)
(* Advance moves the clock to the next deadline; a timer whose remaining   *)
(* time is 0 is due and runs before the clock moves again.  Timers due at  *)
(* the same instant run in either order.                                   *)
(***************************************************************************)
EXTENDS Integers, Sequences, FiniteSets, TLC

VARIABLES
    sim,            \* the simulator this process runs
    faker,          \* what faker.number.int draws in this process
    runs,           \* the run store: run id -> run record
    nextId,         \* intake requests received so far; a run's uuid is the
                    \* number of the request that created it
    cleanupTimer,   \* ms until the next cleanup sweep, Null where there is none
    crashed,        \* an exception left a timer callback: the process is dead
    resp,           \* the HTTP response of the request just served
    gen,            \* one call of a record generator: its request and result
    match           \* one record put to a matcher of the LinkedIn filters

vars == <<sim, faker, runs, nextId, cleanupTimer, crashed, resp, gen, match>>

-----------------------------------------------------------------------------
(* Bounds of the model *)

MaxIntakes == 2         \* intake requests received in one behaviour
MaxCap == 1             \* largest max_results a caller sends (event-management)

-----------------------------------------------------------------------------
(* Simulators *)

PromiseSims == {"linkedin", "realestate", "aicr"}
TickSims == {"event", "esg"}
TimerSims == {"event", "esg", "fireworks", "mlinf"}
Sims == PromiseSims \cup TimerSims
\* simulators with a status and a results route
PollingSims == {"linkedin"} \cup TimerSims

MinOf(a, b) == IF a <= b THEN a ELSE b

Null == 0 - 1           \* null timestamp, or a timer that is not pending

\* the status a run has while it is being processed
ProcessingLabel(s) ==
    CASE s = "linkedin" -> "in_progress"
      [] s = "realestate" -> "in_progress"
      [] s = "aicr" -> "processing"
      [] s = "event" -> "in_progress"
      [] s = "esg" -> "analyzing"
      [] s = "fireworks" -> "training"
      [] s = "mlinf" -> "inferencing"

ProcessingLabels ==
    {"in_progress", "processing", "analyzing", "training", "inferencing"}

\* processingTime of processRunAsync, ms
LinkedInProcessingTime == 45000
RealEstateProcessingTime == 78000
AICRProcessingTime == 95000

processingTime(s) ==
    CASE s = "linkedin" -> LinkedInProcessingTime
      [] s = "realestate" -> RealEstateProcessingTime
      [] s = "aicr" -> AICRProcessingTime

\* estimated_duration stored on the run, seconds
LinkedInEstimatedDuration == 45

\* timeout the health route advertises, seconds
LinkedInHealthTimeout == 60
RealEstateHealthTimeout == 78
AICRHealthTimeout == 180

\* TIMEOUT_DURATION of the timer-driven servers, ms
EventTimeoutDuration == 70 * 1000
ESGTimeoutDuration == 120 * 1000
FireworksTimeoutDuration == 3600 * 1000
MlTimeoutDuration == 300 * 1000

TIMEOUT_DURATION(s) ==
    CASE s = "event" -> EventTimeoutDuration
      [] s = "esg" -> ESGTimeoutDuration
      [] s = "fireworks" -> FireworksTimeoutDuration
      [] s = "mlinf" -> MlTimeoutDuration

\* the timeout budget of a simulator in ms, as its health route states it
HealthTimeoutMs(s) ==
    CASE s = "linkedin" -> LinkedInHealthTimeout * 1000
      [] s = "realestate" -> RealEstateHealthTimeout * 1000
      [] s = "aicr" -> AICRHealthTimeout * 1000
      [] OTHER -> TIMEOUT_DURATION(s)

\* faker.number.int({min, max}) of the startup delay
EventStartDelayMin == 1000
EventStartDelayMax == 5000
FireworksStartDelayMin == 10000
FireworksStartDelayMax == 30000
MlStartDelayMin == 1000
MlStartDelayMax == 3000

\* faker.number.int({min, max}): the draws of one process are all the least
\* or all the greatest value of their range
Draw(min, max) == IF faker = "min" THEN min ELSE max

StartDelay(s) ==
    CASE s \in TickSims -> Draw(EventStartDelayMin, EventStartDelayMax)
      [] s = "fireworks" -> Draw(FireworksStartDelayMin, FireworksStartDelayMax)
      [] s = "mlinf" -> Draw(MlStartDelayMin, MlStartDelayMax)

\* the longest startup delay of a simulator (0 where processing starts at intake)
MaxStartDelay(s) ==
    CASE s \in TickSims -> EventStartDelayMax
      [] s = "fireworks" -> FireworksStartDelayMax
      [] s = "mlinf" -> MlStartDelayMax
      [] OTHER -> 0

\* faker.number.int({min: 2000, max: 10000}) of the inference delay
MlInferenceDelayMin == 2000
MlInferenceDelayMax == 10000
InferenceDelay == Draw(MlInferenceDelayMin, MlInferenceDelayMax)

\* max_objects of an event-management run when max_results is absent or 0
EventDefaultMaxObjects == 40
\* max_objects of an ESG run: faker.number.int({min: 15, max: 150})
ESGMinObjects == 15
ESGMaxObjects == 150
ESGMaxObjectsDraw == Draw(ESGMinObjects, ESGMaxObjects)

\* the fireworks progress interval: TIMEOUT_DURATION / 20, +2..8 per tick
FireworksIntervals == 20
FireworksIncMin == 2
FireworksIncMax == 8
FireworksIncrement == Draw(FireworksIncMin, FireworksIncMax)

InitialProgress == 20   \* progress written when processing starts
ProgressCap == 90       \* Math.min(90, ...) while processing
ProgressDone == 100     \* progress written with status ready

\* the cleanup sweep of the promise-driven servers
CleanupMaxAge == 24 * 60 * 60 * 1000
CleanupInterval == 60 * 60 * 1000

\* distance between two polls of a LinkedIn run in flight, ms
PollStep == 15000

-----------------------------------------------------------------------------
(* Helpers *)

Min(S) == CHOOSE x \in S : \A y \in S : x <= y

\* the delay Node gives a timer: truncated to whole ms, 1 when it is not in
\* 1..2^31-1 (a zero, negative or NaN delay)
TimerDelay(total, parts) ==
    IF parts <= 0 THEN 1
    ELSE IF total \div parts >= 1 THEN total \div parts ELSE 1

\* max_results || 40
MaxObjectsOf(max_results) ==
    IF max_results = 0 THEN EventDefaultMaxObjects ELSE max_results

\* a tick progress without the cap of 90
TickProgressNoCap(generatedCount, max_objects) ==
    (generatedCount * 100) \div max_objects

\* Math.min(90, Math.floor((generatedCount / max_objects) * 100))
TickProgress(generatedCount, max_objects) ==
    MinOf(ProgressCap, (generatedCount * 100) \div max_objects)

Stored == DOMAIN runs

Terminal == {"ready", "completed", "failed", "timedout"}

\* the timers of a run that are pending
PendingTimers(r) ==
    {r.dataGenerationTimer, r.interval, r.inferenceTimer, r.timeoutTimer, r.sleep}
        \ {Null}

AllPending ==
    UNION {PendingTimers(runs[i]) : i \in Stored}
        \cup (IF cleanupTimer = Null THEN {} ELSE {cleanupTimer})

NoResp == [op |-> "none", id |-> 0, code |-> 0, status |-> "", progress |-> 0,
           total |-> 0]

Resp(op, id, code, status, progress, total) ==
    [op |-> op, id |-> id, code |-> code, status |-> status,
     progress |-> progress, total |-> total]

\* no webhook payload has been built for the run
NoWebhookData == [status |-> "", total_records |-> Null, data |-> Null]

\* the webhookData object of sendWebhook (status 'completed') and of
\* sendErrorWebhook (status 'failed'); the timer-driven servers log a line
\* and build no payload
WebhookData(r) ==
    IF sim \notin PromiseSims THEN r.webhookData
    ELSE IF r.status = "ready"
    THEN [status |-> "completed", total_records |-> r.record_count, data |-> r.data]
    ELSE [status |-> "failed", total_records |-> Null, data |-> Null]

\* the run record an intake handler stores
NewRun(status, max_objects) ==
    [status |-> status, progress |-> 0, data |-> 0, error |-> "",
     threw |-> FALSE, age |-> 0, startedAt |-> Null, completedAt |-> Null,
     max_objects |-> max_objects, generatedCount |-> 0, localProgress |-> 0,
     dataGenerationTimer |-> Null, interval |-> Null, inferenceTimer |-> Null,
     timeoutTimer |-> Null, sleep |-> Null,
     webhook_url |-> FALSE, delivered |-> 0, deliveryFailed |-> FALSE,
     attempts |-> 0, record_count |-> Null, webhookData |-> NoWebhookData]

\* sendWebhook / sendErrorWebhook that lets a delivery failure reach the run
sendWebhookUncaught(r, fails) ==
    [r EXCEPT !.delivered = @ + 1, !.deliveryFailed = fails,
              !.webhookData = IF fails THEN @ ELSE WebhookData(r),
              !.status = IF fails THEN "failed" ELSE @,
              !.error = IF fails THEN "msg" ELSE @]

\* a sendWebhook whose payload carries the record count without the records
sendWebhookNoData(r, fails) ==
    [r EXCEPT !.delivered = @ + 1, !.deliveryFailed = fails,
              !.webhookData = IF fails THEN @
                              ELSE [WebhookData(r) EXCEPT !.data = 0]]

\* sendWebhook / sendErrorWebhook: builds the payload and logs it inside a
\* try/catch; a failure is logged and the run is not written to
sendWebhook(r, fails) ==
    [r EXCEPT !.delivered = @ + 1, !.deliveryFailed = fails,
              !.webhookData = IF fails THEN @ ELSE WebhookData(r)]

\* if (runInfo.webhook_url) sendWebhook(runId, runInfo)
Deliver(r, fails) == IF r.webhook_url THEN sendWebhook(r, fails) ELSE r

Put(i, r) == [j \in Stored \cup {i} |-> IF j = i THEN r ELSE runs[j]]

-----------------------------------------------------------------------------
(* Initial state: the process has started, the store is empty *)

\* record kinds of the candidate pool: the value of the attribute the main
\* filter looks at (department, city, industry) and whether the record passes
\* the matcher of the second filter (skills, price range, funding stage)
RecordKeys == {"Engineering", "engineering ops", "Sales"}

Kinds == [key : RecordKeys, others : BOOLEAN]

EmptyPool == [k \in Kinds |-> 0]

NoFilters == [primary |-> "", secondary |-> FALSE]

\* no generator call is followed
NoGen ==
    [phase |-> "none", generator |-> "none", filters |-> NoFilters,
     inner |-> [present |-> FALSE, primary |-> "", secondary |-> FALSE],
     max |-> Null, candidates |-> 0, records |-> EmptyPool]

\* no matcher call is followed
NoMatch ==
    [phase |-> "none", fn |-> "none", form |-> "none", a |-> 0, b |-> 0,
     experience |-> 0, filter |-> <<>>, phone |-> <<>>,
     result |-> FALSE, again |-> FALSE, location |-> <<>>]

Init ==
    /\ gen = NoGen
    /\ match = NoMatch
    /\ sim \in Sims
    /\ faker \in {"min", "max"}
    /\ runs = <<>>
    /\ nextId = 0
    /\ cleanupTimer = IF sim \in PromiseSims THEN CleanupInterval ELSE Null
    /\ crashed = FALSE
    /\ resp = NoResp

-----------------------------------------------------------------------------
(* Request inputs *)

\* a required request field: missing, present but falsy (""), or given
FieldValues == {"absent", "empty", "present"}

Truthy(v) == v = "present"

\* max_results values a caller sends; 0 also stands for an absent max_results
MaxResultsInputs == (0 - 1) .. MaxCap

\* record counts a generator of the promise-driven servers returns
MaxRecords == 2
RecordCounts == {0, MaxRecords}

\* ids a client asks about: every uuid handed out, and one never handed out
RequestIds == 1 .. (MaxIntakes + 1)

BadRequest == Resp("intake", 0, 400, "", 0, 0)

-----------------------------------------------------------------------------
(* Intake of the promise-driven servers.  processRunAsync runs inside the  *)
(* handler up to its first await: the stored status is already the         *)
(* processing label when the handler returns.                              *)

PromiseIntake(valid) ==
    /\ ~crashed
    /\ nextId < MaxIntakes
    /\ nextId' = nextId + 1
    /\ IF ~valid
       THEN /\ resp' = BadRequest
            /\ UNCHANGED <<match, gen, sim, faker, runs, cleanupTimer, crashed>>
       ELSE /\ \E webhook_url \in BOOLEAN :
                   runs' = Put(nextId + 1,
                       [NewRun(ProcessingLabel(sim), 0) EXCEPT
                           !.startedAt = 0, !.sleep = processingTime(sim),
                           !.webhook_url = webhook_url])
            /\ resp' = Resp("intake", nextId + 1, 200, "waiting", 0, 0)
            /\ UNCHANGED <<match, gen, sim, faker, cleanupTimer, crashed>>

\* POST /v2/people/search
LinkedInSearch(filter, filters) ==
    /\ sim = "linkedin"
    /\ PromiseIntake(Truthy(filter) /\ Truthy(filters))

\* POST /v1/properties/search
PropertiesSearch(filters) ==
    /\ sim = "realestate"
    /\ PromiseIntake(Truthy(filters))

\* POST /api/analyze of the AI Company Researcher
AICRAnalyze(query) ==
    /\ sim = "aicr"
    /\ PromiseIntake(Truthy(query))

\* logger.logStatusTransition and logger.logDataGeneration, called after the
\* status is set to ready: the logger class is not among the sources; it
\* writes a log line and returns
loggerThrows == FALSE

\* processRunAsync that puts a run whose generation threw back in the queue
processRunAsyncRetry(i, throws, n) ==
    /\ ~crashed
    /\ sim \in PromiseSims
    /\ i \in Stored
    /\ runs[i].sleep = 0
    /\ \E fails \in BOOLEAN :
         runs' = [runs EXCEPT ![i] =
           IF throws
           THEN [@ EXCEPT !.sleep = processingTime(sim), !.status = "waiting",
                          !.error = "msg", !.threw = TRUE,
                          !.attempts = @ + 1]
           ELSE Deliver([@ EXCEPT !.sleep = Null, !.status = "ready",
                                  !.data = n, !.record_count = n,
                                  !.completedAt = runs[i].age,
                                  !.attempts = @ + 1], fails)]
    /\ resp' = NoResp
    /\ UNCHANGED <<match, gen, sim, faker, nextId, cleanupTimer, crashed>>

\* processRunAsync after its await: generation, then ready or failed
processRunAsync(i, throws, n) ==
    /\ ~crashed
    /\ sim \in PromiseSims
    /\ i \in Stored
    /\ runs[i].sleep = 0
    /\ \E fails \in BOOLEAN :
         runs' = [runs EXCEPT ![i] =
           IF throws
           THEN Deliver([@ EXCEPT !.sleep = Null, !.status = "failed",
                                  !.error = "msg", !.threw = TRUE,
                                  !.attempts = @ + 1], fails)
           ELSE IF loggerThrows
           THEN Deliver([@ EXCEPT !.sleep = Null, !.status = "failed",
                                  !.data = n, !.record_count = n,
                                  !.completedAt = runs[i].age,
                                  !.error = "msg", !.attempts = @ + 1], fails)
           ELSE Deliver([@ EXCEPT !.sleep = Null, !.status = "ready",
                                  !.data = n, !.record_count = n,
                                  !.completedAt = runs[i].age,
                                  !.attempts = @ + 1], fails)]
    /\ resp' = NoResp
    /\ UNCHANGED <<match, gen, sim, faker, nextId, cleanupTimer, crashed>>

\* the hourly sweep: delete every run older than 24 hours
CleanupSweep ==
    /\ ~crashed
    /\ cleanupTimer = 0
    /\ runs' = [j \in {k \in Stored : ~(runs[k].age > CleanupMaxAge)} |-> runs[j]]
    /\ cleanupTimer' = CleanupInterval
    /\ resp' = NoResp
    /\ UNCHANGED <<match, gen, sim, faker, nextId, crashed>>

-----------------------------------------------------------------------------
(* Intake of the timer-driven servers *)

\* max_concurrent_runs as the health routes advertise it
LinkedInMaxConcurrent == 50
RealEstateMaxConcurrent == 30
AICRMaxConcurrent == 5
EventMaxConcurrent == 20
ESGMaxConcurrent == 8
FireworksMaxConcurrent == 2
MLInferenceMaxConcurrent == 10

max_concurrent_runs(s) ==
    CASE s = "linkedin" -> LinkedInMaxConcurrent
      [] s = "realestate" -> RealEstateMaxConcurrent
      [] s = "aicr" -> AICRMaxConcurrent
      [] s = "event" -> EventMaxConcurrent
      [] s = "esg" -> ESGMaxConcurrent
      [] s = "fireworks" -> FireworksMaxConcurrent
      [] s = "mlinf" -> MLInferenceMaxConcurrent

\* intake requests received in one behaviour of a timer-driven server: one
\* more than the smallest advertised max_concurrent_runs where MaxIntakes
\* would stay within it
IntakeBound ==
    IF max_concurrent_runs(sim) <= MaxIntakes THEN max_concurrent_runs(sim) + 1
    ELSE MaxIntakes

\* an intake that stores the run before it validates the request
TimerIntakeStoreFirst(valid, max_objects, delay, ackStatus) ==
    /\ ~crashed
    /\ nextId < IntakeBound
    /\ nextId' = nextId + 1
    /\ \E webhook_url \in BOOLEAN :
           runs' = Put(nextId + 1,
               [NewRun("waiting", max_objects) EXCEPT
                   !.dataGenerationTimer = delay, !.webhook_url = webhook_url])
    /\ resp' = IF valid THEN Resp("intake", nextId + 1, 202, ackStatus, 0, 0)
                ELSE BadRequest
    /\ UNCHANGED <<match, gen, sim, faker, cleanupTimer, crashed>>

\* an intake that arms the timeout timer when it creates the run
TimerIntakeArmed(valid, max_objects, delay, ackStatus) ==
    /\ ~crashed
    /\ nextId < IntakeBound
    /\ nextId' = nextId + 1
    /\ IF ~valid
       THEN /\ resp' = BadRequest
            /\ UNCHANGED <<match, gen, sim, faker, runs, cleanupTimer, crashed>>
       ELSE /\ \E webhook_url \in BOOLEAN :
                   runs' = Put(nextId + 1,
                       [NewRun("waiting", max_objects) EXCEPT
                           !.dataGenerationTimer = delay,
                           !.timeoutTimer = TIMEOUT_DURATION(sim),
                           !.webhook_url = webhook_url])
            /\ resp' = Resp("intake", nextId + 1, 202, ackStatus, 0, 0)
            /\ UNCHANGED <<match, gen, sim, faker, cleanupTimer, crashed>>

TimerIntake(valid, max_objects, delay, ackStatus) ==
    /\ ~crashed
    /\ nextId < IntakeBound
    /\ nextId' = nextId + 1
    /\ IF ~valid
       THEN /\ resp' = BadRequest
            /\ UNCHANGED <<match, gen, sim, faker, runs, cleanupTimer, crashed>>
       ELSE /\ \E webhook_url \in BOOLEAN :
                   runs' = Put(nextId + 1,
                       [NewRun("waiting", max_objects) EXCEPT
                           !.dataGenerationTimer = delay,
                           !.webhook_url = webhook_url])
            /\ resp' = Resp("intake", nextId + 1, 202, ackStatus, 0, 0)
            /\ UNCHANGED <<match, gen, sim, faker, cleanupTimer, crashed>>

\* POST /v1/events/search
EventsSearch(request_id, max_results) ==
    /\ sim = "event"
    /\ TimerIntake(Truthy(request_id), MaxObjectsOf(max_results),
                   StartDelay(sim), "waiting")

\* POST /api/analyze of the ESG agent
ESGAnalyze(run_id) ==
    /\ sim = "esg"
    /\ TimerIntake(Truthy(run_id), ESGMaxObjectsDraw, StartDelay(sim), "waiting")

\* POST /inference/v1/fine_tuning/jobs
FineTuningJobs(job_id) ==
    /\ sim = "fireworks"
    /\ TimerIntake(Truthy(job_id), 0, StartDelay(sim), "queued")

\* POST /api/2.0/mlflow/runs/create
MlflowRunsCreate(run_id) ==
    /\ sim = "mlinf"
    /\ TimerIntake(Truthy(run_id), 0, StartDelay(sim), "waiting")

-----------------------------------------------------------------------------
(* Timer callbacks of the timer-driven servers.  None of them has a        *)
(* try/catch: an exception of the generator leaves the callback and ends   *)
(* the process (crashed), with the store as the callback left it.          *)

\* the setTimeout callback that starts processing
dataGenerationTimer(i) ==
    /\ ~crashed
    /\ sim \in TimerSims
    /\ i \in Stored
    /\ runs[i].dataGenerationTimer = 0
    /\ runs' = [runs EXCEPT ![i] =
           [@ EXCEPT !.dataGenerationTimer = Null,
                     !.startedAt = runs[i].age,
                     !.status = ProcessingLabel(sim),
                     !.progress = InitialProgress,
                     !.generatedCount = 0,
                     !.localProgress = IF sim = "fireworks" THEN InitialProgress ELSE 0,
                     !.interval =
                         CASE sim \in TickSims ->
                                  TimerDelay(TIMEOUT_DURATION(sim), runs[i].max_objects)
                           [] sim = "fireworks" ->
                                  TimerDelay(TIMEOUT_DURATION(sim), FireworksIntervals)
                           [] OTHER -> Null,
                     !.inferenceTimer = IF sim = "mlinf" THEN InferenceDelay ELSE Null,
                     !.timeoutTimer = TIMEOUT_DURATION(sim),
                     !.attempts = @ + 1]]
    /\ resp' = NoResp
    /\ UNCHANGED <<match, gen, sim, faker, nextId, cleanupTimer, crashed>>

\* a generation interval whose ticks push the record to one array that all
\* runs share
GenerationTickShared(i, throws) ==
    /\ ~crashed
    /\ sim \in TickSims
    /\ i \in Stored
    /\ runs[i].interval = 0
    /\ IF runs[i].generatedCount < runs[i].max_objects
       THEN IF throws
            THEN /\ crashed' = TRUE
                 /\ runs' = [runs EXCEPT ![i].threw = TRUE]
            ELSE /\ runs' = [j \in Stored |->
                        IF j = i
                        THEN [runs[i] EXCEPT
                                  !.data = @ + 1,
                                  !.generatedCount = @ + 1,
                                  !.progress = TickProgress(runs[i].generatedCount + 1,
                                                            runs[i].max_objects),
                                  !.interval = TimerDelay(TIMEOUT_DURATION(sim),
                                                          runs[i].max_objects)]
                        ELSE [runs[j] EXCEPT !.data = @ + 1]]
                 /\ UNCHANGED crashed
       ELSE /\ ~throws
            /\ runs' = [runs EXCEPT ![i] =
                   Deliver([@ EXCEPT !.interval = Null,
                                     !.status = "ready",
                                     !.progress = ProgressDone,
                                     !.completedAt = runs[i].age], FALSE)]
            /\ UNCHANGED crashed
    /\ resp' = NoResp
    /\ UNCHANGED <<match, gen, sim, faker, nextId, cleanupTimer>>

\* a generation tick that pushes two records at a time
GenerationTickTwice(i, throws) ==
    /\ ~crashed
    /\ sim \in TickSims
    /\ i \in Stored
    /\ runs[i].interval = 0
    /\ IF runs[i].generatedCount < runs[i].max_objects
       THEN IF throws
            THEN /\ crashed' = TRUE
                 /\ runs' = [runs EXCEPT ![i].threw = TRUE]
            ELSE /\ runs' = [runs EXCEPT ![i] =
                        [@ EXCEPT !.data = @ + 2,
                                  !.generatedCount = @ + 1,
                                  !.progress = TickProgress(runs[i].generatedCount + 1,
                                                            runs[i].max_objects),
                                  !.interval = TimerDelay(TIMEOUT_DURATION(sim),
                                                          runs[i].max_objects)]]
                 /\ UNCHANGED crashed
       ELSE /\ ~throws
            /\ runs' = [runs EXCEPT ![i] =
                   Deliver([@ EXCEPT !.interval = Null,
                                     !.status = "ready",
                                     !.progress = ProgressDone,
                                     !.completedAt = runs[i].age], FALSE)]
            /\ UNCHANGED crashed
    /\ resp' = NoResp
    /\ UNCHANGED <<match, gen, sim, faker, nextId, cleanupTimer>>

\* the generation interval of event-management and ESG
GenerationTick(i, throws) ==
    /\ ~crashed
    /\ sim \in TickSims
    /\ i \in Stored
    /\ runs[i].interval = 0
    /\ IF runs[i].generatedCount < runs[i].max_objects
       THEN IF throws
            THEN /\ crashed' = TRUE
                 /\ runs' = [runs EXCEPT ![i].threw = TRUE]
            ELSE /\ runs' = [runs EXCEPT ![i] =
                        [@ EXCEPT !.data = @ + 1,
                                  !.generatedCount = @ + 1,
                                  !.progress = TickProgress(runs[i].generatedCount + 1,
                                                            runs[i].max_objects),
                                  !.interval = TimerDelay(TIMEOUT_DURATION(sim),
                                                          runs[i].max_objects)]]
                 /\ UNCHANGED crashed
       ELSE /\ ~throws
            /\ runs' = [runs EXCEPT ![i] =
                   Deliver([@ EXCEPT !.interval = Null,
                                     !.status = "ready",
                                     !.progress = ProgressDone,
                                     !.completedAt = runs[i].age], FALSE)]
            /\ UNCHANGED crashed
    /\ resp' = NoResp
    /\ UNCHANGED <<match, gen, sim, faker, nextId, cleanupTimer>>

\* a progress tick whose generator exception is swallowed instead of ending the process
ProgressTickCaught(i, throws) ==
    /\ ~crashed
    /\ sim = "fireworks"
    /\ i \in Stored
    /\ runs[i].interval = 0
    /\ IF runs[i].localProgress < ProgressCap
       THEN /\ ~throws
            /\ runs' = [runs EXCEPT ![i] =
                   [@ EXCEPT !.localProgress = @ + FireworksIncrement,
                             !.progress = MinOf(ProgressCap,
                                 runs[i].localProgress + FireworksIncrement),
                             !.interval = TimerDelay(TIMEOUT_DURATION(sim),
                                                     FireworksIntervals)]]
            /\ UNCHANGED crashed
       ELSE /\ runs' = [runs EXCEPT ![i] =
                   LET r == [@ EXCEPT !.interval = Null,
                                      !.status = "ready",
                                      !.progress = ProgressDone,
                                      !.completedAt = runs[i].age,
                                      !.data = IF throws THEN @ ELSE 1,
                                      !.threw = throws]
                   IN  IF throws THEN r ELSE Deliver(r, FALSE)]
            /\ crashed' = FALSE
    /\ resp' = NoResp
    /\ UNCHANGED <<match, gen, sim, faker, nextId, cleanupTimer>>

\* progressInterval of fireworks
ProgressTick(i, throws) ==
    /\ ~crashed
    /\ sim = "fireworks"
    /\ i \in Stored
    /\ runs[i].interval = 0
    /\ IF runs[i].localProgress < ProgressCap
       THEN /\ ~throws
            /\ runs' = [runs EXCEPT ![i] =
                   [@ EXCEPT !.localProgress = @ + FireworksIncrement,
                             !.progress = MinOf(ProgressCap,
                                 runs[i].localProgress + FireworksIncrement),
                             !.interval = TimerDelay(TIMEOUT_DURATION(sim),
                                                     FireworksIntervals)]]
            /\ UNCHANGED crashed
       ELSE /\ runs' = [runs EXCEPT ![i] =
                   LET r == [@ EXCEPT !.interval = Null,
                                      !.status = "ready",
                                      !.progress = ProgressDone,
                                      !.completedAt = runs[i].age,
                                      !.data = IF throws THEN @ ELSE 1,
                                      !.threw = throws]
                   IN  IF throws THEN r ELSE Deliver(r, FALSE)]
            /\ crashed' = throws
    /\ resp' = NoResp
    /\ UNCHANGED <<match, gen, sim, faker, nextId, cleanupTimer>>

\* an inference callback that marks the run ready without a completion time
InferenceDoneNoStamp(i, throws) ==
    /\ ~crashed
    /\ sim = "mlinf"
    /\ i \in Stored
    /\ runs[i].inferenceTimer = 0
    /\ runs' = [runs EXCEPT ![i] =
           LET r == [@ EXCEPT !.inferenceTimer = Null,
                              !.status = "ready",
                              !.progress = ProgressDone,
                              !.data = IF throws THEN @ ELSE 1,
                              !.threw = throws]
           IN  IF throws THEN r ELSE Deliver(r, FALSE)]
    /\ crashed' = throws
    /\ resp' = NoResp
    /\ UNCHANGED <<match, gen, sim, faker, nextId, cleanupTimer>>

\* the inference setTimeout of ML inference; the timeout timer does not cancel it
InferenceDone(i, throws) ==
    /\ ~crashed
    /\ sim = "mlinf"
    /\ i \in Stored
    /\ runs[i].inferenceTimer = 0
    /\ runs' = [runs EXCEPT ![i] =
           LET r == [@ EXCEPT !.inferenceTimer = Null,
                              !.status = "ready",
                              !.progress = ProgressDone,
                              !.completedAt = runs[i].age,
                              !.data = IF throws THEN @ ELSE 1,
                              !.threw = throws]
           IN  IF throws THEN r ELSE Deliver(r, FALSE)]
    /\ crashed' = throws
    /\ resp' = NoResp
    /\ UNCHANGED <<match, gen, sim, faker, nextId, cleanupTimer>>

\* a timeout callback without the test of the status
timeoutTimerUnguarded(i) ==
    /\ ~crashed
    /\ sim \in TimerSims
    /\ i \in Stored
    /\ runs[i].timeoutTimer = 0
    /\ runs' = [runs EXCEPT ![i] =
           [@ EXCEPT !.timeoutTimer = Null,
                     !.status = "timedout",
                     !.completedAt = runs[i].age,
                     !.interval = Null]]
    /\ resp' = NoResp
    /\ UNCHANGED <<match, gen, sim, faker, nextId, cleanupTimer, crashed>>

\* a timeout callback that writes the status as 'timed_out'
timeoutTimerSnake(i) ==
    /\ ~crashed
    /\ sim \in TimerSims
    /\ i \in Stored
    /\ runs[i].timeoutTimer = 0
    /\ runs' = [runs EXCEPT ![i] =
           IF runs[i].status # "ready" /\ runs[i].status # "completed"
           THEN [@ EXCEPT !.timeoutTimer = Null,
                          !.status = "timed_out",
                          !.completedAt = runs[i].age,
                          !.interval = Null]
           ELSE [@ EXCEPT !.timeoutTimer = Null]]
    /\ resp' = NoResp
    /\ UNCHANGED <<match, gen, sim, faker, nextId, cleanupTimer, crashed>>

\* a timeout callback that leaves the interval of the run ticking
timeoutTimerNoClear(i) ==
    /\ ~crashed
    /\ sim \in TimerSims
    /\ i \in Stored
    /\ runs[i].timeoutTimer = 0
    /\ runs' = [runs EXCEPT ![i] =
           IF runs[i].status # "ready" /\ runs[i].status # "completed"
           THEN [@ EXCEPT !.timeoutTimer = Null,
                          !.status = "timedout",
                          !.completedAt = runs[i].age]
           ELSE [@ EXCEPT !.timeoutTimer = Null]]
    /\ resp' = NoResp
    /\ UNCHANGED <<match, gen, sim, faker, nextId, cleanupTimer, crashed>>

\* the timeout setTimeout, armed when processing starts
timeoutTimer(i) ==
    /\ ~crashed
    /\ sim \in TimerSims
    /\ i \in Stored
    /\ runs[i].timeoutTimer = 0
    /\ runs' = [runs EXCEPT ![i] =
           IF runs[i].status # "ready" /\ runs[i].status # "completed"
           THEN [@ EXCEPT !.timeoutTimer = Null,
                          !.status = "timedout",
                          !.completedAt = runs[i].age,
                          !.interval = Null]
           ELSE [@ EXCEPT !.timeoutTimer = Null]]
    /\ resp' = NoResp
    /\ UNCHANGED <<match, gen, sim, faker, nextId, cleanupTimer, crashed>>

-----------------------------------------------------------------------------
(* Time *)

\* a run's clock is followed while a handler or callback can still read it
Ageing(r) == sim \in PromiseSims \/ PendingTimers(r) # {}

Elapse(t, d) == IF t = Null THEN Null ELSE t - d

\* the clock moves by d ms: to the next deadline, or to the next poll of a
\* LinkedIn run in flight (the one answer that is computed from the clock)
Advance(d) ==
    /\ ~crashed
    /\ AllPending # {}
    /\ d > 0
    /\ \/ d = Min(AllPending)
       \/ /\ sim = "linkedin"
          /\ d = PollStep
          /\ d < Min(AllPending)
          /\ \E i \in Stored : runs[i].sleep # Null
    /\ runs' = [i \in Stored |->
           [runs[i] EXCEPT
               !.age = IF Ageing(runs[i]) THEN @ + d ELSE @,
               !.dataGenerationTimer = Elapse(@, d),
               !.interval = Elapse(@, d),
               !.inferenceTimer = Elapse(@, d),
               !.timeoutTimer = Elapse(@, d),
               !.sleep = Elapse(@, d)]]
    /\ cleanupTimer' = Elapse(cleanupTimer, d)
    /\ resp' = NoResp
    /\ UNCHANGED <<match, gen, sim, faker, nextId, crashed>>

-----------------------------------------------------------------------------
(* Status and results routes: they read the store and change nothing *)

\* a progress computed against twice the estimated duration
ElapsedProgressSlow(age) ==
    IF age >= 2 * LinkedInEstimatedDuration * 1000 THEN 100
    ELSE (age * 100) \div (2 * LinkedInEstimatedDuration * 1000)

\* Math.min(Math.floor((elapsed / (estimated_duration * 1000)) * 100), 100)
ElapsedProgress(age) ==
    IF age >= LinkedInEstimatedDuration * 1000
    THEN 100
    ELSE MinOf((age * 100) \div (LinkedInEstimatedDuration * 1000), 100)

\* GET /v2/runs/:runId/status
LinkedInStatus(i) ==
    IF i \notin Stored
    THEN Resp("status", i, 404, "", 0, 0)
    ELSE Resp("status", i, 200, runs[i].status, ElapsedProgress(runs[i].age), 0)

\* GET /v2/runs/:runId/download
LinkedInDownload(i) ==
    IF i \notin Stored
    THEN Resp("results", i, 404, "", 0, 0)
    ELSE IF runs[i].status # "ready"
    THEN Resp("results", i, 400, "", 0, 0)
    ELSE Resp("results", i, 200, "done", 0, runs[i].data)

\* the data and total_records of the download body of a ready run
DownloadBody(i) ==
    [data |-> runs[i].data, total_records |-> runs[i].record_count]

\* a status route without the test for an unknown id
TimerStatusNoCheck(i) ==
    IF i \notin Stored
    THEN Resp("status", i, 500, "", 0, 0)
    ELSE Resp("status", i, 200, runs[i].status, runs[i].progress, 0)

\* the status route of the timer-driven servers
TimerStatus(i) ==
    IF i \notin Stored
    THEN Resp("status", i, 404, "", 0, 0)
    ELSE Resp("status", i, 200, runs[i].status, runs[i].progress, 0)

\* the results route of the timer-driven servers
TimerResults(i) ==
    IF i \notin Stored
    THEN Resp("results", i, 404, "", 0, 0)
    ELSE IF runs[i].status = "ready" \/ runs[i].status = "completed"
    THEN Resp("results", i, 200,
              IF sim \in {"esg", "mlinf"} THEN "ready" ELSE "done", 0, runs[i].data)
    ELSE IF runs[i].status = "failed" \/ runs[i].status = "timedout"
    THEN Resp("results", i, 500, "", 0, 0)
    ELSE Resp("results", i, 409, "", 0, 0)

\* the router of the Real Estate API has GET /api/health and
\* POST /v1/properties/search only: express answers any other path with 404,
\* whatever the store holds
RealEstateStatus(i) == Resp("status", i, 404, "", 0, 0)

RealEstateResults(i) == Resp("results", i, 404, "", 0, 0)

\* the AI Company Researcher router has the same two routes: health and intake
ResearcherStatus(i) == Resp("status", i, 404, "", 0, 0)

StatusResponse(i) == IF sim = "linkedin" THEN LinkedInStatus(i) ELSE TimerStatus(i)

ResultsResponse(i) == IF sim = "linkedin" THEN LinkedInDownload(i) ELSE TimerResults(i)

\* a status route that stores the progress it reports in the run
StatusRequestStoring(i) ==
    /\ ~crashed
    /\ sim \in PollingSims
    /\ StatusResponse(i).code \in {200, 404}
    /\ runs' = [j \in Stored |->
                   IF j = i THEN [runs[j] EXCEPT !.progress = StatusResponse(i).progress]
                   ELSE runs[j]]
    /\ UNCHANGED <<match, gen, sim, faker, nextId, cleanupTimer, crashed, resp>>

StatusRequest(i) ==
    /\ ~crashed
    /\ sim \in PollingSims
    /\ StatusResponse(i).code \in {200, 404}
    /\ UNCHANGED vars

ResultsRequest(i) ==
    /\ ~crashed
    /\ sim \in PollingSims
    /\ ResultsResponse(i).code \in {200, 400, 404, 409, 500}
    /\ UNCHANGED vars

-----------------------------------------------------------------------------

Next ==
    \/ \E f, g \in FieldValues : LinkedInSearch(f, g)
    \/ \E f \in FieldValues : PropertiesSearch(f)
    \/ \E q \in FieldValues : AICRAnalyze(q)
    \/ \E i \in Stored, t \in BOOLEAN, n \in RecordCounts : processRunAsync(i, t, n)
    \/ CleanupSweep
    \/ \E f \in FieldValues, m \in MaxResultsInputs : EventsSearch(f, m)
    \/ \E f \in FieldValues : ESGAnalyze(f)
    \/ \E f \in FieldValues : FineTuningJobs(f)
    \/ \E f \in FieldValues : MlflowRunsCreate(f)
    \/ \E i \in Stored : dataGenerationTimer(i)
    \/ \E i \in Stored, t \in BOOLEAN : GenerationTick(i, t)
    \/ \E i \in Stored, t \in BOOLEAN : ProgressTick(i, t)
    \/ \E i \in Stored, t \in BOOLEAN : InferenceDone(i, t)
    \/ \E i \in Stored : timeoutTimer(i)
    \/ \E d \in {PollStep} \cup AllPending : Advance(d)
    \/ \E i \in RequestIds : StatusRequest(i)
    \/ \E i \in RequestIds : ResultsRequest(i)

Spec == Init /\ [][Next]_vars

-----------------------------------------------------------------------------
(* The record generators of the promise-driven servers, followed one call  *)
(* at a time: the request body as the intake handler hands it over, the    *)
(* candidate pool and the records returned.                                *)

Generators == {"people", "property", "company"}

SimOf(g) ==
    CASE g = "people" -> "linkedin"
      [] g = "property" -> "realestate"
      [] OTHER -> "aicr"

\* the largest max_objects / max_results a request asks for
RequestedMax == 10

\* max_objects = 500, max_results = 300, generateApiResponse(query, 100)
PeopleDefaultMax == 500
PropertyDefaultMax == 300
CompanyMax == 100

\* the maximum the generator is called with: the request's, the default when
\* the request has none; the AI Company Researcher always passes 100
MaxArgument(g, max) ==
    CASE g = "company" -> CompanyMax
      [] max # Null -> max
      [] g = "people" -> PeopleDefaultMax
      [] OTHER -> PropertyDefaultMax

\* Math.floor(Math.random() * 400) + 50 and its counterparts
PeopleBaseMin == 50
PeopleBaseMax == 449
PropertyBaseMin == 50
PropertyBaseMax == 299
CompanyBaseMin == 20
CompanyBaseMax == 99

BaseCounts(g) ==
    CASE g = "people" -> {PeopleBaseMin, PeopleBaseMax}
      [] g = "property" -> {PropertyBaseMin, PropertyBaseMax}
      [] OTHER -> {CompanyBaseMin, CompanyBaseMax}

\* Math.floor(baseCount * 0.t)
Scale(n, tenths) == (n * tenths) \div 10

SkillsTenths == 7
DepartmentTenths == 6
CityTenths == 7
PriceRangeTenths == 8
IndustryTenths == 6
FundingStageTenths == 5

\* toLowerCase on the strings of the model
Lower(str) ==
    CASE str = "Engineering" -> "engineering"
      [] str = "Sales" -> "sales"
      [] str = "SALES" -> "sales"
      [] OTHER -> str

\* String.prototype.includes on the lower-case strings of the model
Includes(str, part) ==
    \/ part = ""
    \/ str = part
    \/ (str = "engineering ops" /\ part = "engineering")

\* matchesDepartment, matchesCity, matchesIndustry
matchesPrimary(record, filter) == Includes(Lower(record.key), Lower(filter))

\* parseFilters reads requestParams.filter.filters (people) and
\* requestParams.filters (property), where requestParams is the filter object
\* of the request body itself; parseQuery (company) reads the query string
parseFilters(g, filters, inner) ==
    IF g = "company" THEN filters
    ELSE IF inner.present
    THEN [primary |-> inner.primary, secondary |-> inner.secondary]
    ELSE NoFilters

\* a record count that is not capped by the requested maximum
calculateRecordCountNoCap(g, filters, baseCount, maxObjects) ==
    IF filters.primary # "" THEN Scale(baseCount, DepartmentTenths) ELSE baseCount

\* calculateRecordCount of the three generators, for the two filter fields
\* the requests of the model carry
calculateRecordCount(g, filters, baseCount, maxObjects) ==
    LET adjusted ==
            CASE g = "people" ->
                     LET a == IF filters.secondary
                              THEN Scale(baseCount, SkillsTenths) ELSE baseCount
                     IN  IF filters.primary # ""
                         THEN Scale(a, DepartmentTenths) ELSE a
              [] g = "property" ->
                     LET a == IF filters.primary # ""
                              THEN Scale(baseCount, CityTenths) ELSE baseCount
                     IN  IF filters.secondary
                         THEN Scale(a, PriceRangeTenths) ELSE a
              [] OTHER ->
                     LET a == IF filters.primary # ""
                              THEN Scale(baseCount, IndustryTenths) ELSE baseCount
                     IN  IF filters.secondary
                         THEN Scale(a, FundingStageTenths) ELSE a
    IN  MinOf(adjusted, maxObjects)

\* generateObject(type, count) of shared/data-generators, which is not among
\* the sources: count records, here the first half of kind k1, the rest k2
generateObject(count, k1, k2) ==
    LET n == IF count > 0 THEN count ELSE 0
        n1 == n \div 2
    IN  [k \in Kinds |-> (IF k = k1 THEN n1 ELSE 0) + (IF k = k2 THEN n - n1 ELSE 0)]

\* applyLinkedInFilters, applyRealEstateFilters, applyAIResearchFilters
applyFilters(records, filters) ==
    [k \in Kinds |->
        IF /\ (filters.primary # "" => matchesPrimary(k, filters.primary))
           /\ (filters.secondary => k.others)
        THEN records[k] ELSE 0]

RECURSIVE SumOver(_, _)
SumOver(records, S) ==
    IF S = {} THEN 0
    ELSE LET k == CHOOSE x \in S : TRUE
         IN  records[k] + SumOver(records, S \ {k})

\* records.length
Length(records) == SumOver(records, Kinds)

FilterInputs == {"", "Engineering", "SALES"}

MaxInputs == {Null, 0, RequestedMax}

GenInit ==
    /\ \E g \in Generators, primary \in FilterInputs, secondary \in BOOLEAN,
          present \in BOOLEAN, innerPrimary \in FilterInputs \ {""},
          max \in MaxInputs :
          /\ sim = SimOf(g)
          /\ gen = [NoGen EXCEPT
                 !.phase = "request", !.generator = g,
                 !.filters = [primary |-> primary, secondary |-> secondary],
                 !.inner = [present |-> present,
                            primary |-> IF present THEN innerPrimary ELSE "",
                            secondary |-> FALSE],
                 !.max = max]
    /\ match = NoMatch
    /\ faker = "min"
    /\ runs = <<>>
    /\ nextId = 0
    /\ cleanupTimer = CleanupInterval
    /\ crashed = FALSE
    /\ resp = NoResp

\* generatePeopleRecords / generatePropertyRecords / generateCompanyRecords
generateRecords(g, baseCount, k1, k2) ==
    /\ gen.phase = "request"
    /\ gen.generator = g
    /\ LET filters == parseFilters(g, gen.filters, gen.inner)
           recordCount == calculateRecordCount(g, filters, baseCount,
                                               MaxArgument(g, gen.max))
           records == generateObject(recordCount, k1, k2)
       IN  gen' = [gen EXCEPT !.phase = "done",
                              !.candidates = Length(records),
                              !.records = applyFilters(records, filters)]
    /\ UNCHANGED <<match, sim, faker, runs, nextId, cleanupTimer, crashed, resp>>

generatePeopleRecords(baseCount, k1, k2) == generateRecords("people", baseCount, k1, k2)

generatePropertyRecords(baseCount, k1, k2) == generateRecords("property", baseCount, k1, k2)

generateCompanyRecords(baseCount, k1, k2) == generateRecords("company", baseCount, k1, k2)

GenNext ==
    \/ \E b \in BaseCounts("people"), k1, k2 \in Kinds : generatePeopleRecords(b, k1, k2)
    \/ \E b \in BaseCounts("property"), k1, k2 \in Kinds : generatePropertyRecords(b, k1, k2)
    \/ \E b \in BaseCounts("company"), k1, k2 \in Kinds : generateCompanyRecords(b, k1, k2)

GenSpec == GenInit /\ [][GenNext]_vars

-----------------------------------------------------------------------------
(* The matchers of the LinkedIn filters, followed one record at a time.    *)
(* A string is the sequence of its characters.                             *)

DigitChars == <<"0", "1", "2", "3", "4", "5", "6", "7", "8", "9">>

IsDigit(c) == \E d \in 1 .. 10 : DigitChars[d] = c

DigitValue(c) == (CHOOSE d \in 1 .. 10 : DigitChars[d] = c) - 1

\* the value parseInt and Number give a text that is no number
NaN == 0 - 1000000

RECURSIVE DigitsValue(_)
DigitsValue(str) ==
    IF str = <<>> THEN 0
    ELSE 10 * DigitsValue(SubSeq(str, 1, Len(str) - 1)) + DigitValue(str[Len(str)])

\* String.prototype.includes for a one-character argument
IncludesChar(str, c) == \E k \in 1 .. Len(str) : str[k] = c

IndexOf(str, c) == Min({k \in 1 .. Len(str) : str[k] = c})

\* str.replace(c, ''): the first occurrence of c is removed
ReplaceFirst(str, c) ==
    IF ~IncludesChar(str, c) THEN str
    ELSE SubSeq(str, 1, IndexOf(str, c) - 1)
             \o SubSeq(str, IndexOf(str, c) + 1, Len(str))

\* the number of digits a text starts with
LeadingDigits(str) ==
    IF \A k \in 1 .. Len(str) : IsDigit(str[k]) THEN Len(str)
    ELSE Min({k \in 1 .. Len(str) : ~IsDigit(str[k])}) - 1

\* parseInt(str): an optional sign, then the longest run of digits
parseInt(str) ==
    LET signed == Len(str) > 0 /\ str[1] \in {"-", "+"}
        body == IF signed THEN Tail(str) ELSE str
        k == LeadingDigits(body)
        value == DigitsValue(SubSeq(body, 1, k))
    IN  IF k = 0 THEN NaN
        ELSE IF signed /\ str[1] = "-" THEN 0 - value ELSE value

\* Number(str) for the pieces split('-') leaves: 0 for the empty text
Number(str) ==
    IF str = <<>> THEN 0
    ELSE IF LeadingDigits(str) = Len(str) THEN DigitsValue(str)
    ELSE NaN

\* the first two pieces of str.split('-')
SplitFirst(str) == SubSeq(str, 1, IndexOf(str, "-") - 1)

SplitSecond(str) ==
    LET rest == SubSeq(str, IndexOf(str, "-") + 1, Len(str))
    IN  IF IncludesChar(rest, "-") THEN SubSeq(rest, 1, IndexOf(rest, "-") - 1)
        ELSE rest

\* comparisons of JavaScript numbers: false when a side is NaN
Greater(x, y) == x # NaN /\ y # NaN /\ x > y

GreaterEq(x, y) == x # NaN /\ y # NaN /\ x >= y

\* Math.abs(experience - targetYears) <= 2
ExperienceTolerance == 2

\* a matchesExperience whose bare number matches an exact value only
matchesExperienceExact(experience, experienceFilter) ==
    IF IncludesChar(experienceFilter, ">")
    THEN Greater(experience, parseInt(ReplaceFirst(experienceFilter, ">")))
    ELSE IF IncludesChar(experienceFilter, "<")
    THEN Greater(parseInt(ReplaceFirst(experienceFilter, "<")), experience)
    ELSE IF IncludesChar(experienceFilter, "-")
    THEN /\ GreaterEq(experience, Number(SplitFirst(experienceFilter)))
         /\ GreaterEq(Number(SplitSecond(experienceFilter)), experience)
    ELSE experience = parseInt(experienceFilter)

matchesExperience(experience, experienceFilter) ==
    IF IncludesChar(experienceFilter, ">")
    THEN Greater(experience, parseInt(ReplaceFirst(experienceFilter, ">")))
    ELSE IF IncludesChar(experienceFilter, "<")
    THEN Greater(parseInt(ReplaceFirst(experienceFilter, "<")), experience)
    ELSE IF IncludesChar(experienceFilter, "-")
    THEN /\ GreaterEq(experience, Number(SplitFirst(experienceFilter)))
         /\ GreaterEq(Number(SplitSecond(experienceFilter)), experience)
    ELSE LET targetYears == parseInt(experienceFilter)
             distance == IF experience >= targetYears
                         THEN experience - targetYears
                         ELSE targetYears - experience
         IN  targetYears # NaN /\ distance <= ExperienceTolerance

\* the largest number of years in a record or in a filter
MaxYears == 12

\* the decimal text of a number of years
YearsText(n) ==
    IF n < 10 THEN <<DigitChars[n + 1]>>
    ELSE <<DigitChars[(n \div 10) + 1], DigitChars[(n % 10) + 1]>>

\* the experience_years formats of the README
ExperienceForms == {"more", "less", "between", "around"}

ExperienceText(form, a, b) ==
    CASE form = "more" -> <<">">> \o YearsText(a)
      [] form = "less" -> <<"<">> \o YearsText(a)
      [] form = "between" -> YearsText(a) \o <<"-">> \o YearsText(b)
      [] OTHER -> YearsText(a)

UpperChars == <<"A", "B", "C", "D", "F", "G", "H", "I", "L", "M", "N", "P", "S", "T", "W", "X", "Y">>

LowerChars == <<"a", "b", "c", "d", "f", "g", "h", "i", "l", "m", "n", "p", "s", "t", "w", "x", "y">>

\* toLowerCase
ToLowerCase(str) ==
    [k \in 1 .. Len(str) |->
        IF \E u \in 1 .. Len(UpperChars) : UpperChars[u] = str[k]
        THEN LowerChars[CHOOSE u \in 1 .. Len(UpperChars) : UpperChars[u] = str[k]]
        ELSE str[k]]

\* String.prototype.includes
IncludesText(str, part) ==
    \E k \in 0 .. (Len(str) - Len(part)) : SubSeq(str, k + 1, k + Len(part)) = part

\* the cities matchesLocation draws from
cities ==
    <<<<"S", "a", "n", " ", "F", "r", "a", "n", "c", "i", "s", "c", "o">>,
      <<"N", "e", "w", " ", "Y", "o", "r", "k">>,
      <<"A", "u", "s", "t", "i", "n">>,
      <<"S", "e", "a", "t", "t", "l", "e">>,
      <<"B", "o", "s", "t", "o", "n">>,
      <<"C", "h", "i", "c", "a", "g", "o">>,
      <<"D", "e", "n", "v", "e", "r">>,
      <<"L", "o", "s", " ", "A", "n", "g", "e", "l", "e", "s">>,
      <<"M", "i", "a", "m", "i">>,
      <<"P", "o", "r", "t", "l", "a", "n", "d">>>>

\* the area codes of generateLocationFromPhone and the city of each
areaCodes ==
    <<<<"2", "1", "2">>,
      <<"4", "1", "5">>,
      <<"3", "1", "0">>,
      <<"3", "1", "2">>,
      <<"6", "1", "7">>,
      <<"4", "0", "4">>,
      <<"3", "0", "5">>,
      <<"7", "1", "3">>,
      <<"2", "1", "4">>,
      <<"2", "0", "6">>>>

areaCodeToCity ==
    <<<<"N", "e", "w", " ", "Y", "o", "r", "k", ",", " ", "N", "Y">>,
      <<"S", "a", "n", " ", "F", "r", "a", "n", "c", "i", "s", "c", "o", ",", " ", "C", "A">>,
      <<"L", "o", "s", " ", "A", "n", "g", "e", "l", "e", "s", ",", " ", "C", "A">>,
      <<"C", "h", "i", "c", "a", "g", "o", ",", " ", "I", "L">>,
      <<"B", "o", "s", "t", "o", "n", ",", " ", "M", "A">>,
      <<"A", "t", "l", "a", "n", "t", "a", ",", " ", "G", "A">>,
      <<"M", "i", "a", "m", "i", ",", " ", "F", "L">>,
      <<"H", "o", "u", "s", "t", "o", "n", ",", " ", "T", "X">>,
      <<"D", "a", "l", "l", "a", "s", ",", " ", "T", "X">>,
      <<"S", "e", "a", "t", "t", "l", "e", ",", " ", "W", "A">>>>

DefaultLocation == <<"S", "a", "n", " ", "F", "r", "a", "n", "c", "i", "s", "c", "o", ",", " ", "C", "A">>

\* an area code that is not in the table
OtherAreaCode == <<"5", "5", "5">>

\* phone.match(/\d{3}/)[0] for a phone number that starts with its area
\* code, then the city of the code or the default
generateLocationFromPhone(phone) ==
    LET areaCode == SubSeq(phone, 1, 3)
    IN  IF \E k \in 1 .. Len(areaCodes) : areaCodes[k] = areaCode
        THEN areaCodeToCity[CHOOSE k \in 1 .. Len(areaCodes) : areaCodes[k] = areaCode]
        ELSE DefaultLocation

\* a matchesLocation that looks at the location of the record
matchesLocationOfRecord(phone, locationFilter, random) ==
    IncludesText(ToLowerCase(generateLocationFromPhone(phone)),
                 ToLowerCase(locationFilter))

\* matchesLocation: random is Math.floor(Math.random() * cities.length) + 1;
\* the record is not read
matchesLocation(phone, locationFilter, random) ==
    IncludesText(ToLowerCase(cities[random]), ToLowerCase(locationFilter))

\* the location filters of the requests
LocationInputs ==
    {<<"S", "a", "n", " ", "F", "r", "a", "n", "c", "i", "s", "c", "o">>,
     <<"a", "u", "s", "t", "i", "n">>,
     <<"N", "e", "w", " ", "Y", "o", "r", "k">>}

MatchInit ==
    /\ \/ \E form \in ExperienceForms, a, b, e \in 0 .. MaxYears :
              /\ form # "between" => b = 0
              /\ match = [NoMatch EXCEPT
                     !.phase = "request", !.fn = "experience",
                     !.form = form, !.a = a, !.b = b, !.experience = e,
                     !.filter = ExperienceText(form, a, b)]
       \/ \E k \in 1 .. (Len(areaCodes) + 1), f \in LocationInputs :
              match = [NoMatch EXCEPT
                  !.phase = "request", !.fn = "location", !.filter = f,
                  !.phone = IF k <= Len(areaCodes) THEN areaCodes[k]
                            ELSE OtherAreaCode]
    /\ sim = "linkedin"
    /\ gen = NoGen
    /\ faker = "min"
    /\ runs = <<>>
    /\ nextId = 0
    /\ cleanupTimer = CleanupInterval
    /\ crashed = FALSE
    /\ resp = NoResp

\* applyLinkedInFilters puts the record to matchesExperience
MatchExperience ==
    /\ match.phase = "request"
    /\ match.fn = "experience"
    /\ match' = [match EXCEPT
           !.phase = "done",
           !.result = matchesExperience(match.experience, match.filter),
           !.again = matchesExperience(match.experience, match.filter)]
    /\ UNCHANGED <<gen, sim, faker, runs, nextId, cleanupTimer, crashed, resp>>

\* applyLinkedInFilters puts the record to matchesLocation, here twice over;
\* enhanceLinkedInData then writes the location of the record
MatchLocation(random1, random2) ==
    /\ match.phase = "request"
    /\ match.fn = "location"
    /\ match' = [match EXCEPT
           !.phase = "done",
           !.result = matchesLocation(match.phone, match.filter, random1),
           !.again = matchesLocation(match.phone, match.filter, random2),
           !.location = generateLocationFromPhone(match.phone)]
    /\ UNCHANGED <<gen, sim, faker, runs, nextId, cleanupTimer, crashed, resp>>

MatchNext ==
    \/ MatchExperience
    \/ \E random1, random2 \in 1 .. Len(cities) : MatchLocation(random1, random2)

MatchSpec == MatchInit /\ [][MatchNext]_vars

-----------------------------------------------------------------------------
(* Properties *)

\* the stage of a status: 0 waiting, 1 being processed, 2 finished
Stage(status) ==
    CASE status = "waiting" -> 0
      [] status \in ProcessingLabels -> 1
      [] OTHER -> 2

Kept == Stored \cap DOMAIN runs'

\* the progress a status poll of run i reports
ReportedProgress(i) == StatusResponse(i).progress

\* C1: in every step, the status of every run stays where it is or moves
\* forward along waiting -> processing label -> finished; it never moves back
\* and never goes from waiting to a finished status in one step.
ForwardStep ==
    \A i \in Kept :
        /\ Stage(runs'[i].status) >= Stage(runs[i].status)
        /\ ~(runs[i].status = "waiting" /\ Stage(runs'[i].status) = 2)

ClaimC1 == [][ForwardStep]_vars

\* a run that was processed has finished
WitnessC1 ==
    \E i \in Stored : runs[i].status \in Terminal /\ runs[i].startedAt # Null

\* C2: a run that is ready, failed or timed out keeps its status, its stored
\* and its reported progress, its data and its completion timestamp in every
\* later step; it leaves the store only in a cleanup sweep that finds it older
\* than the retention window.
FinishedKept ==
    \A i \in Stored :
        runs[i].status \in Terminal =>
            IF i \in DOMAIN runs'
            THEN /\ runs'[i].status = runs[i].status
                 /\ runs'[i].progress = runs[i].progress
                 /\ runs'[i].data = runs[i].data
                 /\ runs'[i].completedAt = runs[i].completedAt
                 /\ sim \in PollingSims => ReportedProgress(i)' = ReportedProgress(i)
            ELSE cleanupTimer = 0 /\ runs[i].age > CleanupMaxAge

ClaimC3 ==
    (sim \in PollingSims /\ ~crashed) =>
        \A i \in Stored :
            LET r == ResultsResponse(i)
                isReady == runs[i].status \in {"ready", "completed"}
            IN  /\ (r.code \notin {409, 500}) <=> isReady
                /\ isReady => (r.code = 200 /\ r.total = runs[i].data)

\* C4: an intake request without its required field is answered 400 and
\* leaves the run store, with the timers of its runs, as it was.
Refused == resp'.code = 400 /\ runs' = runs

RefusedStep ==
    /\ \A f, g \in FieldValues :
           (~(Truthy(f) /\ Truthy(g)) /\ LinkedInSearch(f, g)) => Refused
    /\ \A f \in FieldValues \ {"present"} :
           /\ PropertiesSearch(f) => Refused
           /\ AICRAnalyze(f) => Refused
           /\ ESGAnalyze(f) => Refused
           /\ FineTuningJobs(f) => Refused
           /\ MlflowRunsCreate(f) => Refused
           /\ \A m \in MaxResultsInputs : EventsSearch(f, m) => Refused

ClaimC4 == [][RefusedStep]_vars

\* a request was refused and the store is still empty
WitnessC4 == resp.code = 400 /\ nextId = 1 /\ Stored = {}

ProgressStep ==
    sim \in PollingSims =>
        \A i \in Kept :
            (runs[i].status \notin Terminal /\ runs'[i].status \notin Terminal) =>
                ReportedProgress(i)' >= ReportedProgress(i)

ClaimC6 == [][ProgressStep]_vars

ClaimC8 ==
    (sim \in PollingSims /\ ~crashed) =>
        \A i \in Stored :
            (runs[i].age > HealthTimeoutMs(sim) + MaxStartDelay(sim)
                 /\ runs[i].status # "ready") =>
                (runs[i].status = "timedout" /\ ResultsResponse(i).code = 500)

\* C9: a run whose generation step raised an error is failed and carries the
\* error message.
ClaimC9 ==
    \A i \in Stored :
        runs[i].threw => (runs[i].status = "failed" /\ runs[i].error # "")

\* C10: the results route answers 409 for a stored run that is waiting or
\* being processed.
ClaimC10 ==
    (sim \in PollingSims /\ ~crashed) =>
        \A i \in Stored :
            Stage(runs[i].status) < 2 => ResultsResponse(i).code = 409

\* C11: the results route answers 500 for a stored run that is failed or
\* timed out.
ClaimC11 ==
    (sim \in PollingSims /\ ~crashed) =>
        \A i \in Stored :
            runs[i].status \in {"failed", "timedout"} =>
                ResultsResponse(i).code = 500

\* C12: the delivery path of a run is invoked at most once; it has been
\* invoked exactly when the run was created with a webhook URL and is ready
\* or failed, and never for a run created without a webhook URL.
ClaimC12 ==
    \A i \in Stored :
        /\ runs[i].delivered <= 1
        /\ ~runs[i].webhook_url => runs[i].delivered = 0
        /\ runs[i].webhook_url =>
               (runs[i].delivered = 1 <=> runs[i].status \in {"ready", "failed"})

\* C13: a step in which the webhook sender failed leaves the run as the
\* generation step made it: ready with its data and completion time when the
\* generation succeeded, failed with nothing added when it threw.
DeliveryFailureStep ==
    \A i \in Kept :
        (runs'[i].delivered > runs[i].delivered /\ runs'[i].deliveryFailed) =>
            /\ runs'[i].status = IF runs'[i].threw THEN "failed" ELSE "ready"
            /\ runs'[i].threw =>
                   /\ runs'[i].data = runs[i].data
                   /\ runs'[i].completedAt = runs[i].completedAt
            /\ ~runs'[i].threw =>
                   /\ runs'[i].data \in RecordCounts
                   /\ runs'[i].completedAt = runs[i].age
            /\ runs'[i].startedAt = runs[i].startedAt

ClaimC13 == [][DeliveryFailureStep]_vars

\* a ready run and a failed run whose webhook sender failed
WitnessC13 ==
    /\ \E i \in Stored : runs[i].deliveryFailed /\ runs[i].status = "ready"
    /\ \E i \in Stored : runs[i].deliveryFailed /\ runs[i].status = "failed"

\* C14: a stored run that is not ready holds no records.
ClaimC14 ==
    \A i \in Stored : runs[i].status # "ready" => runs[i].data = 0

\* C16 as stated: a LinkedIn run whose driver has finished its delay is
\* ready, and a poll that sees ready reports progress 100.
OriginalC16 ==
    (sim = "linkedin") =>
        \A i \in Stored :
            /\ runs[i].age > LinkedInProcessingTime => runs[i].status = "ready"
            /\ StatusResponse(i).status = "ready" => StatusResponse(i).progress = 100

\* C16 as amended: a LinkedIn run whose driver has finished its delay is
\* ready, or failed when its generation step raised an error, and a poll
\* that sees ready reports progress 100.
ClaimC16 ==
    (sim = "linkedin") =>
        \A i \in Stored :
            /\ runs[i].age > LinkedInProcessingTime =>
                   /\ runs[i].sleep = Null
                   /\ runs[i].status = IF runs[i].threw THEN "failed" ELSE "ready"
            /\ StatusResponse(i).status = "ready" => StatusResponse(i).progress = 100

\* a LinkedIn run is polled after its delay and is ready
WitnessC16 ==
    /\ sim = "linkedin"
    /\ \E i \in Stored :
          /\ runs[i].age > LinkedInProcessingTime
          /\ StatusResponse(i).status = "ready"
          /\ StatusResponse(i).progress = 100

\* C18: a stored run has a cleanup sweep scheduled, and no stored run is
\* older than the retention window plus one sweep period.
ClaimC18 ==
    \A i \in Stored :
        /\ cleanupTimer # Null
        /\ runs[i].age <= CleanupMaxAge + CleanupInterval

\* C19: the driver of a run is started at most once, and a run that is
\* failed or timed out keeps that status and has no driver timer armed again.
NoRetryStep ==
    \A i \in Kept :
        /\ runs'[i].attempts <= 1
        /\ runs[i].status \in {"failed", "timedout"} =>
               /\ runs'[i].status = runs[i].status
               /\ runs'[i].attempts = runs[i].attempts
               /\ runs'[i].sleep = Null
               /\ runs'[i].dataGenerationTimer = Null
               /\ runs'[i].interval = Null
               /\ runs'[i].inferenceTimer = Null

ClaimC20 ==
    (sim = "linkedin") =>
        \A i \in Stored :
            runs[i].threw => (runs[i].status # "failed" /\ runs[i].sleep # Null)

\* C15: the records a LinkedIn run returns for a request whose filter names
\* the department "Engineering" and whose max_objects is 10 all have a
\* department that contains "engineering", whatever the case of the letters,
\* and they are no more than 10.
ClaimC15 ==
    (/\ gen.phase = "done"
     /\ gen.generator = "people"
     /\ gen.filters.primary = "Engineering"
     /\ gen.max = RequestedMax
     /\ ~gen.inner.present) =>
        /\ \A k \in Kinds :
               gen.records[k] > 0 => matchesPrimary(k, gen.filters.primary)
        /\ Length(gen.records) <= RequestedMax

ClaimC21 ==
    /\ (resp.op = "intake" /\ resp.code \in {200, 202}) =>
           runs[resp.id].status = "waiting"
    /\ \A i \in Stored :
           (runs[i].age = 0 \/ runs[i].dataGenerationTimer # Null) =>
               runs[i].status = "waiting"

\* C22: a Real Estate API run created without a callback_url can be polled:
\* a status request answers 200 with the stored status, and once the run is
\* ready a results request answers 200 with the generated records.
ClaimC22 ==
    (sim = "realestate") =>
        \A i \in Stored :
            ~runs[i].webhook_url =>
                /\ RealEstateStatus(i).code = 200
                /\ RealEstateStatus(i).status = runs[i].status
                /\ runs[i].status = "ready" =>
                       /\ RealEstateResults(i).code = 200
                       /\ RealEstateResults(i).total = runs[i].data

\* C23 as stated: in the timer-driven servers the timeout timer of a run runs
\* from the creation of the run: a waiting run has it armed, and an armed
\* timer has the timeout budget less the age of the run left.
OriginalC23 ==
    (sim \in TimerSims) =>
        \A i \in Stored :
            /\ runs[i].status = "waiting" => runs[i].timeoutTimer # Null
            /\ runs[i].timeoutTimer # Null =>
                   runs[i].timeoutTimer + runs[i].age = TIMEOUT_DURATION(sim)

\* C23: in the timer-driven servers the timeout timer of a run is armed when
\* its processing starts: a waiting run has no timeout timer, an armed timer
\* has the timeout budget less the time since the start of processing left,
\* and a run is marked timed out exactly one budget after that start.
ClaimC23 ==
    (sim \in TimerSims) =>
        \A i \in Stored :
            /\ runs[i].status = "waiting" => runs[i].timeoutTimer = Null
            /\ runs[i].timeoutTimer # Null =>
                   runs[i].timeoutTimer + (runs[i].age - runs[i].startedAt)
                       = TIMEOUT_DURATION(sim)
            /\ runs[i].status = "timedout" =>
                   runs[i].completedAt - runs[i].startedAt = TIMEOUT_DURATION(sim)

\* a run was marked timed out, its startup delay and its whole budget later
WitnessC23 ==
    /\ sim \in TimerSims
    /\ \E i \in Stored :
           /\ runs[i].status = "timedout"
           /\ runs[i].startedAt = StartDelay(sim)
           /\ runs[i].completedAt = StartDelay(sim) + TIMEOUT_DURATION(sim)

\* C24: a run the timeout timer has marked timed out has no driver timer in
\* flight (no interval, no inference timer), and no later step appends a
\* record to it or changes its progress, its tick count or its status.
TimedOutStopped ==
    (sim \in TimerSims) =>
        \A i \in Stored :
            runs[i].status = "timedout" =>
                /\ runs[i].interval = Null
                /\ runs[i].inferenceTimer = Null
                /\ i \in DOMAIN runs'
                /\ runs'[i].status = "timedout"
                /\ runs'[i].data = runs[i].data
                /\ runs'[i].progress = runs[i].progress
                /\ runs'[i].generatedCount = runs[i].generatedCount
                /\ runs'[i].localProgress = runs[i].localProgress

ClaimC24 == [][TimedOutStopped]_vars

\* a run was timed out while its interval was ticking, and a younger run
\* of the same process has started processing since
WitnessC24 ==
    /\ sim \in TickSims \cup {"fireworks"}
    /\ \E i, j \in Stored :
           /\ runs[i].status = "timedout"
           /\ runs[i].progress > InitialProgress
           /\ runs[j].age < runs[i].completedAt
           /\ runs[j].status = ProcessingLabel(sim)

\* C25: in event-management, ESG and fireworks the stored progress of a run
\* is at most 90 while its status is the processing label, and it is 100
\* exactly when the status is ready.
ClaimC25 ==
    (sim \in TickSims \cup {"fireworks"}) =>
        \A i \in Stored :
            /\ runs[i].status = ProcessingLabel(sim) =>
                   runs[i].progress <= ProgressCap
            /\ runs[i].progress = ProgressDone <=> runs[i].status = "ready"

\* one run is processing with its progress at the cap, another is ready
WitnessC25 ==
    /\ sim \in TickSims
    /\ \E i, j \in Stored :
           /\ runs[i].status = ProcessingLabel(sim)
           /\ runs[i].generatedCount = runs[i].max_objects
           /\ runs[i].progress = ProgressCap
           /\ runs[j].status = "ready"
           /\ runs[j].progress = ProgressDone

\* C26: in event-management and ESG a run with a positive record cap whose
\* generator has not thrown is never marked timed out: its ticks complete
\* within the timeout budget.
ClaimC26 ==
    (sim \in TickSims) =>
        \A i \in Stored :
            (runs[i].max_objects > 0 /\ ~runs[i].threw) =>
                runs[i].status # "timedout"

\* status, progress, data and timestamps of a run
RunFields(r) == <<r.status, r.progress, r.data, r.startedAt, r.completedAt>>

\* C27: runs are independent: no step changes the status, progress, data or
\* timestamps of more than one run, and a step that creates a run changes
\* none of the runs already stored.
RunsIndependent ==
    /\ \A i, j \in Stored \cap DOMAIN runs' :
           (i # j /\ RunFields(runs'[i]) # RunFields(runs[i])) =>
               RunFields(runs'[j]) = RunFields(runs[j])
    /\ (DOMAIN runs' \ Stored # {}) =>
           \A j \in Stored \cap DOMAIN runs' :
               RunFields(runs'[j]) = RunFields(runs[j])

ClaimC27 == [][RunsIndependent]_vars

\* two runs in flight in one simulator, one has moved on and the other has
\* not been touched
WitnessC27 ==
    /\ ~crashed
    /\ \E i, j \in Stored :
           /\ i # j
           /\ runs[i].status = ProcessingLabel(sim)
           /\ runs[i].data > 0
           /\ runs[j].status = "waiting"
           /\ runs[j].data = 0

\* C28: every record a real-estate run returns for a request whose filters
\* object names a city or a price range satisfies each filter the caller
\* supplied.
ClaimC28 ==
    (/\ gen.phase = "done"
     /\ gen.generator = "property"
     /\ ~gen.inner.present) =>
        \A k \in Kinds :
            gen.records[k] > 0 =>
                /\ gen.filters.primary # "" => matchesPrimary(k, gen.filters.primary)
                /\ gen.filters.secondary => k.others

\* the README's reading of an experience_years filter
DocumentedExperience(form, e, a, b) ==
    CASE form = "more" -> e > a
      [] form = "less" -> e < a
      [] form = "between" -> a <= e /\ e <= b
      [] OTHER -> (e - a <= 2 /\ a - e <= 2)

\* C29: for every experience and every bound from 0 to MaxYears,
\* matchesExperience decides ">n", "<n", "a-b" and a bare "n" as the README
\* documents them.
ClaimC29 ==
    (match.phase = "done" /\ match.fn = "experience") =>
        match.result =
            DocumentedExperience(match.form, match.experience, match.a, match.b)

\* a bare two-digit filter matched a record two years away from it
WitnessC29 ==
    /\ match.phase = "done"
    /\ match.fn = "experience"
    /\ match.form = "around"
    /\ match.a = 10
    /\ match.experience = 12
    /\ match.result

\* C30: a record that passes the LinkedIn location filter has a location
\* that contains the filter text, whatever the case of the letters, and the
\* decision for a record and a filter is the same each time it is taken.
ClaimC30 ==
    (match.phase = "done" /\ match.fn = "location") =>
        /\ match.result = match.again
        /\ match.result =>
               IncludesText(ToLowerCase(match.location), ToLowerCase(match.filter))

\* C31: the success webhook of a ready run of the promise-driven servers
\* carries the run's stored records and their number: total_records is the
\* length of data, both are what the store holds, and for LinkedIn both are
\* what the download answers for the run.
ClaimC31 ==
    (sim \in PromiseSims) =>
        \A i \in Stored :
            (runs[i].status = "ready" /\ runs[i].webhookData.status = "completed") =>
                /\ runs[i].webhookData.total_records = runs[i].webhookData.data
                /\ runs[i].webhookData.data = runs[i].data
                /\ runs[i].webhookData.total_records = runs[i].record_count
                /\ sim = "linkedin" =>
                       /\ LinkedInDownload(i).code = 200
                       /\ DownloadBody(i).data = runs[i].webhookData.data
                       /\ DownloadBody(i).total_records
                              = runs[i].webhookData.total_records

\* a LinkedIn run with records is ready and its success webhook was sent
WitnessC31 ==
    /\ sim = "linkedin"
    /\ \E i \in Stored :
           /\ runs[i].status = "ready"
           /\ runs[i].webhookData.status = "completed"
           /\ runs[i].webhookData.data = MaxRecords
           /\ LinkedInDownload(i).total = MaxRecords

\* C32: no run stays waiting or processing forever: a stored run that has not
\* reached a terminal status has a timer pending in a live process, whose
\* firing moves it on.
ClaimC32 ==
    \A i \in Stored :
        runs[i].status \notin Terminal =>
            (~crashed /\ PendingTimers(runs[i]) # {})

\* C33: the status and results routes are read-only: a step that serves a
\* status or results request, for a stored id or for one that is not stored,
\* leaves the run store, every field and timer of every run, the cleanup
\* timer and the process as they were.
ReadOnlyRequests ==
    \A i \in RequestIds :
        (StatusRequest(i) \/ ResultsRequest(i)) =>
            /\ runs' = runs
            /\ cleanupTimer' = cleanupTimer
            /\ nextId' = nextId
            /\ crashed' = crashed

ClaimC33 == [][ReadOnlyRequests]_vars

\* requests can be served while a run is being processed: its status and
\* results, and those of an id that is not stored
WitnessC33 ==
    /\ sim \in PollingSims
    /\ ~crashed
    /\ \E i \in Stored, j \in RequestIds \ Stored :
           /\ runs[i].status = ProcessingLabel(sim)
           /\ PendingTimers(runs[i]) # {}
           /\ ENABLED StatusRequest(i)
           /\ ENABLED ResultsRequest(i)
           /\ ENABLED StatusRequest(j)
           /\ ENABLED ResultsRequest(j)

\* C34: in the timer-driven servers a ready run has its completedAt set, and
\* a run that is waiting or being processed has none.
ClaimC34 ==
    (sim \in TimerSims) =>
        \A i \in Stored :
            /\ runs[i].status = "ready" => runs[i].completedAt # Null
            /\ runs[i].status \in {"waiting", ProcessingLabel(sim)} =>
                   runs[i].completedAt = Null

\* a run is ready, completed after it started, its results are served, and
\* another run is still being processed
WitnessC34 ==
    /\ sim \in TimerSims
    /\ ~crashed
    /\ \E i, j \in Stored :
           /\ runs[i].status = "ready"
           /\ runs[i].completedAt > runs[i].startedAt
           /\ TimerResults(i).code = 200
           /\ runs[j].status = ProcessingLabel(sim)
           /\ runs[j].completedAt = Null

ClaimC36 ==
    (sim \in {"fireworks", "mlinf"} /\ ~crashed) =>
        \A i \in Stored :
            runs[i].status = "ready" =>
                /\ runs[i].data # 0
                /\ TimerResults(i).code = 200
                /\ TimerResults(i).total # 0

\* a ready run is served with its data while another run of the same process
\* is about to be marked ready by a callback whose generator may throw
WitnessC36 ==
    /\ sim \in {"fireworks", "mlinf"}
    /\ ~crashed
    /\ \E i, j \in Stored :
           /\ runs[i].status = "ready"
           /\ runs[i].data # 0
           /\ ENABLED ResultsRequest(i)
           /\ runs[j].status = ProcessingLabel(sim)
           /\ runs[j].data = 0
           /\ ENABLED (ProgressTick(j, TRUE) \/ InferenceDone(j, TRUE))

\* what a status poll of run i is answered in the three servers that sweep
SweptStatus(i) ==
    IF sim = "linkedin" THEN LinkedInStatus(i)
    ELSE IF sim = "realestate" THEN RealEstateStatus(i)
    ELSE ResearcherStatus(i)

\* a run leaves the store only in a sweep that finds it older than 24 hours,
\* and a sweep leaves the runs it keeps as they are
SweepRemovesOld ==
    /\ \A i \in Stored :
           i \notin DOMAIN runs' =>
               cleanupTimer = 0 /\ runs[i].age > CleanupMaxAge
    /\ CleanupSweep => \A i \in DOMAIN runs' : runs'[i] = runs[i]

\* C37: in LinkedIn, real-estate and AI Company Researcher the sweep removes
\* a run only if it is older than 24 hours and changes nothing on the runs it
\* keeps, and a status poll of a stored run that is at most 24 hours old is
\* never answered 404.
SweepStep ==
    (sim \in PromiseSims) =>
        /\ SweepRemovesOld
        /\ \A i \in Stored :
               runs[i].age <= CleanupMaxAge => SweptStatus(i).code # 404

ClaimC37 == [][SweepStep]_vars

\* the runs of the store that are waiting or being processed
InFlight == {i \in Stored : runs[i].status \in {"waiting", ProcessingLabel(sim)}}

\* C38: the number of runs that are waiting or being processed at the same
\* time never exceeds the max_concurrent_runs the health route advertises.
ClaimC38 == Cardinality(InFlight) <= max_concurrent_runs(sim)

====
